---- MODULE Spec2Model ----
(***************************************************************************)
(* Model of lambda-runtime-client/src/error.rs: the ErrorResponse report,  *)
(* its two constructors, the ApiError value (new, unrecoverable, the six   *)
(* From adaptations) and ApiError's RuntimeApiError::to_response.          *)
(*                                                                         *)
(* A String is a sequence of one-character strings.  An Option<T> is a     *)
(* record [some, val].  The process environment variable RUST_BACKTRACE is *)
(* the Result that env::var returns for it, a record [ok, val].            *)
(***************************************************************************)
EXTENDS Integers, Sequences, FiniteSets, TLC

VARIABLES env, errs, reports, last, made

vars == <<env, errs, reports, last, made>>

(***************************************************************************)
(* Bounds and input sets.                                                  *)
(***************************************************************************)
\* how many of the texts of DescriptionList are used as descriptions
NumDescriptions == 2
\* how many of the texts of BacktraceList a capture can return
NumBacktraces == 2
\* longest message handed to ErrorResponse::handled / ::unhandled
MaxMsgLen == 5

\* the error values of one run; no claim relates more than two of them
ErrIds == {"e1", "e2"}

DescriptionList ==
  << <<"e", "o", "f">>,
     <<>>,
     <<"a", "\n", "b">> >>

Descriptions == {DescriptionList[k] : k \in 1..NumDescriptions}

\* Debug renderings of the snapshots backtrace::Backtrace::new() may return
BacktraceList ==
  << <<"b", "t", ":", "\n", "0", ":", "f", "\n", "1", ":", "g">>,
     <<>>,
     <<"b", "t", ":", "\r", "\n">> >>

Backtraces == {BacktraceList[k] : k \in 1..NumBacktraces}

MsgAlphabet == {"m", "\n"}

RECURSIVE StringsUpTo(_, _)
StringsUpTo(alphabet, n) ==
  IF n = 0 THEN {<<>>}
  ELSE LET shorter == StringsUpTo(alphabet, n - 1)
       IN  shorter \cup {Append(s, c) : s \in shorter, c \in alphabet}

Messages == StringsUpTo(MsgAlphabet, MaxMsgLen)

(***************************************************************************)
(* Option and Result values.                                               *)
(***************************************************************************)
None == [some |-> FALSE, val |-> <<>>]
Some(x) == [some |-> TRUE, val |-> x]

NotPresent == [ok |-> FALSE, val |-> <<>>]
Ok(s) == [ok |-> TRUE, val |-> s]

\* values RUST_BACKTRACE takes: unset, "1", "0", "" and "11"
EnvValues == {NotPresent, Ok(<<"1">>), Ok(<<"0">>), Ok(<<>>), Ok(<<"1", "1">>)}

(***************************************************************************)
(* Library functions the code calls.                                       *)
(***************************************************************************)
\* String::from(&str) and String::clone: a copy of the characters
String_from(s) == SubSeq(s, 1, Len(s))

\* one line of str::lines(): a trailing "\r" is not part of the line
strip_cr(line) ==
  IF Len(line) > 0 /\ line[Len(line)] = "\r"
  THEN SubSeq(line, 1, Len(line) - 1)
  ELSE line

\* str::lines(): split at "\n"; a final empty piece is not a line
RECURSIVE lines_from(_, _, _)
lines_from(s, k, cur) ==
  IF k > Len(s)
  THEN IF cur = <<>> THEN <<>> ELSE <<strip_cr(cur)>>
  ELSE IF s[k] = "\n"
       THEN <<strip_cr(cur)>> \o lines_from(s, k + 1, <<>>)
       ELSE lines_from(s, k + 1, Append(cur, s[k]))

lines(s) == lines_from(s, 1, <<>>)

\* format!("{:?}", opt) of an Option<Backtrace>
fmt_debug(opt) ==
  IF opt.some
  THEN <<"S", "o", "m", "e", "(">> \o opt.val \o <<")">>
  ELSE <<"N", "o", "n", "e">>

(***************************************************************************)
(* ErrorResponse.                                                          *)
(***************************************************************************)
ERROR_TYPE_HANDLED == "Handled"
ERROR_TYPE_UNHANDLED == "Unhandled"

handled_swapped(message) ==
  [error_message |-> message,
   error_type |-> ERROR_TYPE_UNHANDLED,
   stack_trace |-> None]

handled(message) ==
  [error_message |-> message,
   error_type |-> ERROR_TYPE_HANDLED,
   stack_trace |-> None]

unhandled(message) ==
  [error_message |-> message,
   error_type |-> ERROR_TYPE_UNHANDLED,
   stack_trace |-> None]

(***************************************************************************)
(* ApiError.                                                               *)
(***************************************************************************)
\* is_backtrace is what env::var("RUST_BACKTRACE") returned, captured is
\* what backtrace::Backtrace::new() returns if it is called
new_any_value(description, is_backtrace, captured) ==
  [msg |-> String_from(description),
   backtrace |-> IF is_backtrace.ok THEN Some(captured) ELSE None,
   recoverable |-> TRUE]

new_truncating(description, is_backtrace, captured) ==
  [msg |-> SubSeq(description, 1, Len(description) - 1),
   backtrace |-> IF is_backtrace.ok /\ is_backtrace.val = <<"1">>
                 THEN Some(captured) ELSE None,
   recoverable |-> TRUE]

new(description, is_backtrace, captured) ==
  [msg |-> String_from(description),
   backtrace |-> IF is_backtrace.ok /\ is_backtrace.val = <<"1">>
                 THEN Some(captured) ELSE None,
   recoverable |-> TRUE]

unrecoverable_toggle(self) == [self EXCEPT !.recoverable = ~self.recoverable]

unrecoverable_dropping_trace(self) ==
  [self EXCEPT !.recoverable = FALSE, !.backtrace = None]

unrecoverable(self) == [self EXCEPT !.recoverable = FALSE]

\* Error::description of a source failure
description(e) == e.description

SourceKinds == {"serde_json", "invalid_uri", "hyper", "to_str", "parse_int", "io"}
SourceErrors == [kind : SourceKinds, description : Descriptions]

from_serde_json(e, is_backtrace, captured) == new(description(e), is_backtrace, captured)
from_invalid_uri(e, is_backtrace, captured) == new(description(e), is_backtrace, captured)
from_hyper(e, is_backtrace, captured) == new(description(e), is_backtrace, captured)
from_to_str(e, is_backtrace, captured) == new(description(e), is_backtrace, captured)
from_parse_int(e, is_backtrace, captured) == new(description(e), is_backtrace, captured)

from_io_fatal(e, is_backtrace, captured) ==
  unrecoverable(new(description(e), is_backtrace, captured))

from_io(e, is_backtrace, captured) == new(description(e), is_backtrace, captured)

to_response_by_recoverable(self) ==
  LET backtrace == fmt_debug(self.backtrace)
      trace_vec == lines(backtrace)
      err == IF self.recoverable
             THEN handled(String_from(self.msg))
             ELSE unhandled(String_from(self.msg))
  IN  [err EXCEPT !.stack_trace = Some(trace_vec)]

to_response_without_trace(self) == unhandled(String_from(self.msg))

to_response(self) ==
  LET backtrace == fmt_debug(self.backtrace)
      trace_vec == lines(backtrace)
      err == unhandled(String_from(self.msg))
  IN  [err EXCEPT !.stack_trace = Some(trace_vec)]

(***************************************************************************)
(* State.                                                                  *)
(*   env      the value of RUST_BACKTRACE in the process environment       *)
(*   errs     the ApiError values built so far, by identity                *)
(*   reports  for each error, the ErrorResponse its latest to_response     *)
(*            returned, with the receiver's recoverable flag at that call  *)
(*   last     the latest construction of an ApiError: which constructor,   *)
(*            which value, the description passed and the flag it read     *)
(*   made     the latest ErrorResponse::handled / ::unhandled call         *)
(***************************************************************************)
NoCall == [op |-> "none", self |-> "none", description |-> <<>>, flag |-> NotPresent]
NoReport == [op |-> "none", message |-> <<>>, value |-> unhandled(<<>>)]

Init ==
  /\ env = NotPresent
  /\ errs = [i \in {} |-> 0]
  /\ reports = [i \in {} |-> 0]
  /\ last = NoCall
  /\ made = NoReport

Put(f, i, v) == [j \in DOMAIN f \cup {i} |-> IF j = i THEN v ELSE f[j]]

\* the environment sets, changes or removes RUST_BACKTRACE
SetVar(v) ==
  /\ v \in EnvValues
  /\ v # env
  /\ env' = v
  /\ UNCHANGED <<errs, reports, last, made>>

Construct(i, op, d, value) ==
  /\ i \notin DOMAIN errs
  /\ errs' = Put(errs, i, value)
  /\ last' = [op |-> op, self |-> i, description |-> d, flag |-> env]
  /\ UNCHANGED <<env, reports, made>>

New(i, d) ==
  /\ d \in Descriptions
  /\ \E captured \in Backtraces :
       Construct(i, "new", d, new(d, env, captured))

FromSerdeJson(i, e) ==
  /\ e.kind = "serde_json"
  /\ \E captured \in Backtraces :
       Construct(i, "from_serde_json", description(e), from_serde_json(e, env, captured))

FromInvalidUri(i, e) ==
  /\ e.kind = "invalid_uri"
  /\ \E captured \in Backtraces :
       Construct(i, "from_invalid_uri", description(e), from_invalid_uri(e, env, captured))

FromHyper(i, e) ==
  /\ e.kind = "hyper"
  /\ \E captured \in Backtraces :
       Construct(i, "from_hyper", description(e), from_hyper(e, env, captured))

FromToStr(i, e) ==
  /\ e.kind = "to_str"
  /\ \E captured \in Backtraces :
       Construct(i, "from_to_str", description(e), from_to_str(e, env, captured))

FromParseInt(i, e) ==
  /\ e.kind = "parse_int"
  /\ \E captured \in Backtraces :
       Construct(i, "from_parse_int", description(e), from_parse_int(e, env, captured))

FromIo(i, e) ==
  /\ e.kind = "io"
  /\ \E captured \in Backtraces :
       Construct(i, "from_io", description(e), from_io(e, env, captured))

Unrecoverable(i) ==
  /\ i \in DOMAIN errs
  /\ errs' = [errs EXCEPT ![i] = unrecoverable(errs[i])]
  /\ UNCHANGED <<env, reports, last, made>>

ToResponseTaking(i) ==
  /\ i \in DOMAIN errs
  /\ reports' = Put(reports, i, [recoverable |-> errs[i].recoverable,
                                 value |-> to_response(errs[i])])
  /\ errs' = [errs EXCEPT ![i].backtrace = None]
  /\ UNCHANGED <<env, last, made>>

ToResponse(i) ==
  /\ i \in DOMAIN errs
  /\ reports' = Put(reports, i, [recoverable |-> errs[i].recoverable,
                                 value |-> to_response(errs[i])])
  /\ UNCHANGED <<env, errs, last, made>>

Handled(m) ==
  /\ made' = [op |-> "handled", message |-> m, value |-> handled(m)]
  /\ UNCHANGED <<env, errs, reports, last>>

Unhandled(m) ==
  /\ made' = [op |-> "unhandled", message |-> m, value |-> unhandled(m)]
  /\ UNCHANGED <<env, errs, reports, last>>

Next ==
  \/ \E v \in EnvValues : SetVar(v)
  \/ \E i \in ErrIds, d \in Descriptions : New(i, d)
  \/ \E i \in ErrIds, e \in SourceErrors : FromSerdeJson(i, e)
  \/ \E i \in ErrIds, e \in SourceErrors : FromInvalidUri(i, e)
  \/ \E i \in ErrIds, e \in SourceErrors : FromHyper(i, e)
  \/ \E i \in ErrIds, e \in SourceErrors : FromToStr(i, e)
  \/ \E i \in ErrIds, e \in SourceErrors : FromParseInt(i, e)
  \/ \E i \in ErrIds, e \in SourceErrors : FromIo(i, e)
  \/ \E i \in ErrIds : Unrecoverable(i)
  \/ \E i \in ErrIds : ToResponse(i)

Spec == Init /\ [][Next]_vars

\* the two ErrorResponse constructors on their own
NextReport ==
  \/ \E m \in Messages : Handled(m)
  \/ \E m \in Messages : Unhandled(m)

SpecReport == Init /\ [][NextReport]_vars

(***************************************************************************)
(* Properties.                                                             *)
(***************************************************************************)
CaptureOn == Ok(<<"1">>)
FromOps == {"from_serde_json", "from_invalid_uri", "from_hyper", "from_to_str",
            "from_parse_int", "from_io"}

\* the step builds error i
Built(i) == i \notin DOMAIN errs /\ i \in DOMAIN errs'

\* the latest constructed error has been reported
LastReported == last.op # "none" /\ last.self \in DOMAIN reports

SameReport(a, b) ==
  /\ a.error_message = b.error_message
  /\ a.error_type = b.error_type
  /\ a.stack_trace = b.stack_trace

\* C1: an error built (by new or by a From adaptation) while RUST_BACKTRACE
\* was unset or not "1" is reported with an absent stack trace.
C1_AbsentTraceWhenCaptureOff ==
  (LastReported /\ last.flag # CaptureOn)
    => ~reports[last.self].value.stack_trace.some

\* C2: the report of an error built by new(d) has error_message d and
\* error_type "Unhandled", with capture on or off, marked unrecoverable or not.
C2_MessageVerbatimUnhandled ==
  (LastReported /\ last.op = "new")
    => /\ reports[last.self].value.error_message = last.description
       /\ reports[last.self].value.error_type = "Unhandled"

C2_Witness ==
  /\ LastReported
  /\ last.op = "new"
  /\ last.flag = CaptureOn
  /\ Len(last.description) > 1
  /\ ~reports[last.self].recoverable

\* C3: recoverable is true in a freshly built error, false after a call of
\* unrecoverable, never goes from false back to true, and a second call of
\* unrecoverable changes nothing.
C3_RecoverableOneWay ==
  [][\A i \in ErrIds :
       /\ Built(i) => errs'[i].recoverable
       /\ Unrecoverable(i) => ~errs'[i].recoverable
       /\ (i \in DOMAIN errs /\ ~errs[i].recoverable)
            => (i \in DOMAIN errs' /\ ~errs'[i].recoverable)
       /\ (i \in DOMAIN errs /\ ~errs[i].recoverable /\ Unrecoverable(i))
            => errs' = errs]_vars

C3_Witness ==
  \E i \in DOMAIN reports : ~errs[i].recoverable /\ reports[i].recoverable

\* C4: an error built (by new or by a From adaptation) while RUST_BACKTRACE
\* was "1" is reported with a present stack trace of at least one line.
C4_TracePresentWhenCaptureOn ==
  (LastReported /\ last.flag = CaptureOn)
    => /\ reports[last.self].value.stack_trace.some
       /\ Len(reports[last.self].value.stack_trace.val) >= 1

C4_Witness ==
  /\ LastReported
  /\ last.flag = CaptureOn
  /\ last.op \in FromOps
  /\ errs[last.self].backtrace.some
  /\ Len(reports[last.self].value.stack_trace.val) > 1

\* C5: a From adaptation builds the error new builds from the source
\* failure's description: that message, a trace exactly when the flag is
\* "1", and recoverable true.
C5_FromIsNewOfDescription ==
  [][\A i \in ErrIds :
       (Built(i) /\ last'.op \in FromOps)
         => /\ last'.self = i
            /\ errs'[i].msg = last'.description
            /\ errs'[i].recoverable
            /\ errs'[i].backtrace.some <=> (env = CaptureOn)
            /\ \E captured \in Backtraces :
                 errs'[i] = new(last'.description, env, captured)]_vars

C5_Witness ==
  /\ last.op = "from_io"
  /\ last.flag = CaptureOn
  /\ Len(last.description) > 1
  /\ errs[last.self].backtrace.some
  /\ errs[last.self].recoverable

\* C6: handled(m) is the report (m, "Handled", no trace) and unhandled(m) is
\* the report (m, "Unhandled", no trace), for every message m.
C6_ConstructorsOfErrorResponse ==
  /\ made.op = "handled"
       => /\ made.value.error_message = made.message
          /\ made.value.error_type = "Handled"
          /\ ~made.value.stack_trace.some
  /\ made.op = "unhandled"
       => /\ made.value.error_message = made.message
          /\ made.value.error_type = "Unhandled"
          /\ ~made.value.stack_trace.some

C6_Witness == made.op = "handled" /\ Len(made.message) > 1

\* C7: every construction reads the flag anew: the error it builds has a trace
\* exactly when RUST_BACKTRACE is "1" at that step, and a change of the flag
\* changes no error already built.
C7_FlagReadAtEachConstruction ==
  [][/\ \A i \in ErrIds :
          Built(i) => (errs'[i].backtrace.some <=> (env = CaptureOn))
     /\ env' # env => errs' = errs]_vars

C7_Witness ==
  \E i \in DOMAIN errs, j \in DOMAIN errs :
    /\ errs[i].backtrace.some
    /\ ~errs[j].backtrace.some
    /\ env = Ok(<<"1", "1">>)
    /\ last.flag = Ok(<<>>)

\* C8: msg and backtrace of an error never change once it is built, and
\* unrecoverable changes nothing but the receiver's recoverable field.
C8_MsgAndTraceFixed ==
  [][\A i \in DOMAIN errs :
       /\ i \in DOMAIN errs'
       /\ errs'[i].msg = errs[i].msg
       /\ errs'[i].backtrace = errs[i].backtrace
       /\ Unrecoverable(i)
            => errs' = [errs EXCEPT ![i] = [msg |-> errs[i].msg,
                                            backtrace |-> errs[i].backtrace,
                                            recoverable |-> FALSE]]]_vars

C8_Witness ==
  \E i \in DOMAIN reports :
    /\ ~errs[i].recoverable
    /\ errs[i].backtrace.some
    /\ Len(errs[i].msg) > 1

\* C9: to_response returns a report, changes no field of any error, and
\* returns for an error the report its earlier call returned.
C9_ToResponsePure ==
  [][\A i \in ErrIds :
       ToResponse(i)
         => /\ errs' = errs
            /\ env' = env
            /\ i \in DOMAIN reports'
            /\ reports'[i].value.error_type \in {"Handled", "Unhandled"}
            /\ i \in DOMAIN reports
                 => SameReport(reports'[i].value, reports[i].value)]_vars

C9_Witness ==
  /\ LastReported
  /\ last.flag = CaptureOn
  /\ env = NotPresent
  /\ errs[last.self].backtrace.some
  /\ reports[last.self].recoverable

\* C10: two errors with the same msg and the same backtrace, one reported
\* while recoverable and one reported after unrecoverable, have the same report.
C10_ReportIgnoresRecoverable ==
  \A i \in DOMAIN reports, j \in DOMAIN reports :
    ( /\ errs[i].msg = errs[j].msg
      /\ errs[i].backtrace = errs[j].backtrace
      /\ reports[i].recoverable # reports[j].recoverable )
      => SameReport(reports[i].value, reports[j].value)

C10_Witness ==
  \E i \in DOMAIN reports, j \in DOMAIN reports :
    /\ errs[i].msg = errs[j].msg
    /\ errs[i].backtrace = errs[j].backtrace
    /\ reports[i].recoverable
    /\ ~reports[j].recoverable

====
